---- MODULE Spec2Model ----
(***************************************************************************)
(* A model of one PTY session of winpty-rs: the I/O engine PTYProcess      *)
(* (src/src/pty/base.rs), the ConPTY backend around it                     *)
(* (src/src/pty/conpty/pty_impl.rs) and the WinPTY backend                 *)
(* (src/src/pty/winpty/pty_impl.rs).                                       *)
(*                                                                         *)
(* Threads of a session: the caller (facade operations and, at the end,    *)
(* the destructors), the reader worker, the liveness watcher (Async only)  *)
(* and the ConPTY cleanup thread.  The operating system is the             *)
(* environment: the child process, the console output pipe, handles.       *)
(*                                                                         *)
(* Channels are modelled by what their single receive can observe:         *)
(*  - reader_process (reader_handoff): the reader performs ONE recv, so    *)
(*    only the first message counts;                                       *)
(*  - reader_alive (reader_control): every message is `false` and the      *)
(*    reader leaves its loop on the first one, so only presence counts;    *)
(*  - cleanup_ch (cleanup_signal): the cleanup thread performs ONE recv;   *)
(*  - release_info: one message, sent by spawn.                            *)
(* The caller spawns at most one child per session (the lifecycle          *)
(* Construct -> Spawn -> Run -> Terminate).                                *)
(***************************************************************************)
EXTENDS Integers, Sequences, FiniteSets, TLC

\* ---------------------------------------------------------------- bounds
\* Number of writes the child makes to the console before it exits.
MaxChunks == 2
\* Number of cancel_io() calls the caller makes.
MaxCancels == 1

\* ------------------------------------------------------ program constants
\* GetExitCodeProcess value that get_exitstatus reads as "still running".
STATUS_PENDING == 259
\* Exit codes the child may report.
ExitCodes == {0, STATUS_PENDING}

VARIABLES
    \* configuration, fixed at construction
    async_,            \* PTYProcess.async_: TRUE = ConPTY backend, FALSE = WinPTY
    console_allocated, \* ConPTY.console_allocated: AllocConsole succeeded
    \* operating system
    child,             \* "none" | "alive" | "dead"
    exit_code,         \* exit code of the child once dead
    pipe,              \* chunks written to conout and not yet read (0 = zero-byte write)
    pipe_broken,       \* the writing end of conout is closed
    nwritten,          \* chunks written so far
    agent_freed,       \* winpty_free was called
    close_log,         \* CloseHandle calls so far, in order: <<[h, by]>>
    hpcon_closes,      \* ClosePseudoConsole calls so far
    free_consoles,     \* FreeConsole calls so far
    \* PTYProcess fields
    process,           \* "null" | "hProcess"
    pid,
    close_process,
    reader_ready,      \* reader_ready flag
    reader_atomic,     \* reader_atomic flag ("reader is alive")
    reader_out,        \* output queue, reader -> caller
    reader_out_tx,     \* the queue's sender still exists
    reader_process,    \* handoff channel: "empty" | "Some" | "None"
    reader_alive,      \* control channel holds a `false`
    reader_process_2,  \* reader -> watcher channel: "empty" | "sent" | "closed"
    \* ConPTY fields
    handle_open,       \* second component of the HPCON mutex: not closed yet
    handle_lock,       \* holder of the HPCON mutex: "free" | "cleanup" | "drop"
    process_info,      \* "default" | "set": hProcess/hThread of the child
    cleanup_ch,        \* cleanup channel: "empty" | "true" | "false"
    release_info,      \* release_info channel: "empty" | "sent" | "closed"
    \* thread positions
    rpc,               \* reader worker
    r_cancelled,       \* the reader's pending read was cancelled
    r_avail,           \* Sync reader: bytes PeekNamedPipe reported
    wpc,               \* liveness watcher
    cpc,               \* cleanup thread
    true_sends,        \* sends of `true` on the cleanup channel by the watcher
    send_child,        \* state of the child at the watcher's latest send
    send_flag,         \* reader_atomic at the watcher's latest send
    dpc,               \* destructor ("live" until the session is dropped)
    fpc,               \* is_eof call in progress
    e_succ,            \* is_eof: PeekNamedPipe succeeded
    e_alive,           \* is_eof: is_alive || !queue.is_empty()
    e_pre,             \* is_eof: the session was quiescent and drained at the call
    \* observations of the caller
    last_read,         \* result of the latest read
    eof_seen,          \* some read returned the EOF error
    eof_ret,           \* result of the latest is_eof
    eof_snap,          \* state at the moment the latest is_eof returned, and
                       \* whether the session was drained when it was called
    is_alive_ret,      \* result of the latest is_alive
    alive_false_seen,  \* some is_alive returned false
    exit_after,        \* latest get_exitstatus after is_alive returned false
    ncancel,           \* cancel_io calls so far
    drop_parked,       \* the reader was parked in a read when the drop began
    zero_read,         \* the reader has read a zero-byte chunk
    \* the caller's latest read, and the history of the output queue
    read_mode,         \* "none" | "blocking" | "nonblocking"
    read_item,         \* the item that read dequeued, or NoItem
    enq_log,           \* every item the reader enqueued, in order
    deq_log,           \* every item a read dequeued, in order
    \* write
    write_pending,     \* content of write_mutex: an overlapped write is pending
    pend_count,        \* bytes of the overlapped write that is pending in the OS
    write_len,         \* byte length of the buffer of the latest write
    write_ret,         \* result of the latest write: a count, -1 for Err, -2 none yet
    w_accepted,        \* bytes the OS accepted from the chunks of the latest write
    w_issued,          \* WriteFile calls the latest write made
    \* write, chunk by chunk
    wmutex,            \* holder of write_mutex: 0 = free, else the caller
    wst,               \* each caller's position inside write
    nwrites,           \* write calls made so far
    os_out,            \* overlapped writes submitted that the OS has not completed
    unawaited,         \* overlapped writes submitted whose completion no
                       \* GetOverlappedResult has waited for or found
    w_overlap,         \* a WriteFile was submitted while a write was outstanding
    conin_log,         \* WriteFile calls on conin, in order: [by, call, idx, len]
    \* construction, geometry and spawn results
    new_ret,           \* result of new: "none" | "ok" | "geometry" | "os"
    n_args,            \* arguments of new: [cols, rows]
    con_size,          \* size the OS has for the console: [X, Y]
    spc,               \* set_size call in progress: "idle" | "lock" | "resize"
    s_args,            \* arguments of the latest set_size: [cols, rows]
    size_ret,          \* result of the latest set_size: "none" | "ok" | "geometry" | "os"
    size_before,       \* console size when the latest set_size was called
    size_locked,       \* the latest set_size took the HPCON mutex
    size_api,          \* the latest set_size called the resize API
    api_size,          \* size passed to the resize API by the latest call that made one
    spawn_ret          \* result of the latest spawn: "none" | "ok" | "err", or
                       \* "panic" when the call unwound instead of returning

cfgv  == <<async_, console_allocated>>
osv   == <<child, exit_code, pipe, pipe_broken, nwritten>>
closv == <<agent_freed, close_log, hpcon_closes, free_consoles>>
engv  == <<process, pid, close_process>>
flagv == <<reader_ready, reader_atomic>>
chanv == <<reader_out, reader_out_tx, reader_process, reader_alive, reader_process_2>>
conv  == <<handle_open, handle_lock, process_info, cleanup_ch, release_info>>
rdrv  == <<rpc, r_cancelled, r_avail>>
wobs  == <<true_sends, send_child, send_flag>>
thrv  == <<wpc, cpc, wobs>>
eofv  == <<fpc, e_succ, e_alive, e_pre>>
obsv  == <<last_read, eof_seen, eof_ret, eof_snap, is_alive_ret, alive_false_seen,
           exit_after, ncancel, drop_parked, zero_read>>

readv == <<read_mode, read_item, deq_log>>
cwv   == <<wmutex, wst, nwrites, os_out, unawaited, w_overlap, conin_log>>
wrv   == <<write_pending, pend_count, write_len, write_ret, w_accepted, w_issued, cwv>>
geov  == <<new_ret, n_args, con_size, spc, s_args, size_ret, size_before, size_locked,
           size_api, api_size>>
extv  == <<readv, enq_log, wrv, geov, spawn_ret>>

vars == <<cfgv, osv, closv, engv, flagv, chanv, conv, rdrv, thrv, dpc, eofv, obsv, extv>>

\* ---------------------------------------------------------------- values
ItemOk(v) == [k |-> "ok", v |-> v]
ItemErr   == [k |-> "err", v |-> 0]
ItemNone  == [k |-> "none", v |-> 0]

\* LocalHandle of conin / conout given to PTYProcess::new.
conin  == IF async_ THEN "server_pipe" ELSE "conin"
conout == IF async_ THEN "server_pipe" ELSE "conout"

Closed(h) == \E i \in 1..Len(close_log) : close_log[i].h = h
Closes(h) == Cardinality({i \in 1..Len(close_log) : close_log[i].h = h})

\* read dequeued nothing (recv / try_recv returned an error).
NoItem == [k |-> "nothing", v |-> 0]

\* Threads that call write.
Writers == {1, 2}

\* A caller that is not inside write.
WIdle == [pc |-> "idle", call |-> 0, len |-> 0, todo |-> <<>>, idx |-> 0,
          total |-> 0, accepted |-> 0, issued |-> 0]

\* The caller has made no read, write or set_size yet, and no spawn.
UseInit ==
    /\ read_mode = "none" /\ read_item = NoItem
    /\ enq_log = <<>> /\ deq_log = <<>>
    /\ write_pending = FALSE /\ pend_count = 0 /\ write_len = 0
    /\ write_ret = -2 /\ w_accepted = 0 /\ w_issued = 0
    /\ wmutex = 0 /\ wst = [c \in Writers |-> WIdle]
    /\ nwrites = 0 /\ os_out = 0 /\ unawaited = 0 /\ w_overlap = FALSE
    /\ conin_log = <<>>
    /\ spc = "idle" /\ s_args = [cols |-> 1, rows |-> 1]
    /\ size_ret = "none" /\ size_locked = FALSE /\ size_api = FALSE
    /\ api_size = [X |-> 1, Y |-> 1] /\ size_before = [X |-> 1, Y |-> 1]
    /\ spawn_ret = "none"

\* new(args) has returned Ok for a valid geometry.
Constructed ==
    /\ new_ret = "ok" /\ n_args = [cols |-> 1, rows |-> 1]
    /\ con_size = [X |-> 1, Y |-> 1]

\* new has not been called yet; the caller has chosen the backend.
Unconstructed ==
    /\ new_ret = "none" /\ n_args = [cols |-> 1, rows |-> 1]
    /\ con_size = [X |-> 1, Y |-> 1]

\* The threads, channels and handles as PTYProcess::new and the backend's
\* new create them.
EngineInit ==
    /\ async_ \in BOOLEAN
    /\ console_allocated \in BOOLEAN
    /\ (~async_ => ~console_allocated)
    /\ child = "none" /\ exit_code = 0 /\ pipe = <<>> /\ pipe_broken = FALSE
    /\ nwritten = 0
    /\ agent_freed = FALSE /\ close_log = <<>> /\ hpcon_closes = 0
    /\ free_consoles = 0
    /\ process = "null" /\ pid = 0 /\ close_process = TRUE
    /\ reader_ready = FALSE /\ reader_atomic = TRUE
    /\ reader_out = <<>> /\ reader_out_tx = TRUE
    /\ reader_process = "empty" /\ reader_alive = FALSE
    /\ reader_process_2 = "empty"
    /\ handle_open = async_ /\ handle_lock = "free" /\ process_info = "default"
    /\ cleanup_ch = "empty" /\ release_info = "empty"
    /\ rpc = "handoff" /\ r_cancelled = FALSE /\ r_avail = 0
    /\ wpc = IF async_ THEN "recv" ELSE "done"
    /\ cpc = IF async_ THEN "recv_info" ELSE "done"
    /\ true_sends = 0 /\ send_child = "none" /\ send_flag = FALSE
    /\ dpc = "live"
    /\ fpc = "idle" /\ e_succ = FALSE /\ e_alive = FALSE /\ e_pre = FALSE
    /\ last_read = "none" /\ eof_seen = FALSE
    /\ eof_ret = "none"
    /\ eof_snap = [alive |-> FALSE, pending |-> FALSE, active |-> FALSE,
                   drained |-> FALSE]
    /\ is_alive_ret = "none" /\ alive_false_seen = FALSE /\ exit_after = -2
    /\ ncancel = 0 /\ drop_parked = FALSE /\ zero_read = FALSE

Init == EngineInit /\ UseInit /\ Constructed

\* The state in which new is called.
GeomInit == EngineInit /\ UseInit /\ Unconstructed


\* ------------------------------------------------------- operating system
\* PeekNamedPipe on conout fails only on a broken pipe that has been drained.
PeekOk == ~(pipe_broken /\ pipe = <<>>)

\* Bytes PeekNamedPipe reports as available (a zero-byte write carries none).
TotalBytesAvail == IF \E i \in 1..Len(pipe) : pipe[i] # 0 THEN 1 ELSE 0

\* CancelIoEx(conout): aborts the read the reader has in flight, if there is
\* one and it has not completed; it has no effect on a read issued later.
CancelIoEx ==
    IF rpc = "pending" /\ pipe = <<>> /\ ~pipe_broken THEN TRUE ELSE r_cancelled

\* The child writes a chunk of output (or makes a zero-byte write).
ChildWrite ==
    /\ child = "alive" /\ nwritten < MaxChunks /\ ~pipe_broken
    /\ \E v \in {nwritten + 1, 0} : pipe' = Append(pipe, v)
    /\ nwritten' = nwritten + 1
    /\ UNCHANGED <<extv, cfgv, child, exit_code, pipe_broken, closv, engv, flagv, chanv,
                   conv, rdrv, thrv, dpc, eofv, obsv>>

\* The child exits with some exit code.
ChildExit ==
    /\ child = "alive"
    /\ \E c \in ExitCodes : exit_code' = c
    /\ child' = "dead"
    /\ UNCHANGED <<extv, cfgv, pipe, pipe_broken, nwritten, closv, engv, flagv, chanv,
                   conv, rdrv, thrv, dpc, eofv, obsv>>

\* WinPTY: the agent closes its end of conout once the child is gone.
PipeBreak ==
    /\ ~async_ /\ child = "dead" /\ ~pipe_broken
    /\ pipe_broken' = TRUE
    /\ UNCHANGED <<extv, cfgv, child, exit_code, pipe, nwritten, closv, engv, flagv,
                   chanv, conv, rdrv, thrv, dpc, eofv, obsv>>

\* ---------------------------------------------------------- reader worker
\* reader_process_rx.recv(): Some(process) enters the loop, None leaves.
R_Handoff ==
    /\ rpc = "handoff" /\ reader_process # "empty"
    /\ reader_process' = "empty"
    /\ IF reader_process = "Some"
         THEN /\ reader_ready' = TRUE
              /\ reader_process_2' = IF async_ THEN "sent" ELSE reader_process_2
              /\ rpc' = IF async_ THEN "read" ELSE "ctl"
         ELSE /\ rpc' = "exit"
              /\ UNCHANGED <<reader_ready, reader_process_2>>
    /\ UNCHANGED <<extv, cfgv, osv, closv, engv, reader_atomic, reader_out, reader_out_tx,
                   reader_alive, conv, r_cancelled, r_avail, thrv, dpc, eofv, obsv>>

\* Sync: alive = reader_alive_rx.try_recv().unwrap_or(true)
R_Ctl ==
    /\ ~async_ /\ rpc = "ctl"
    /\ rpc' = IF reader_alive THEN "store" ELSE "peek"
    /\ reader_alive' = FALSE
    /\ UNCHANGED <<extv, cfgv, osv, closv, engv, flagv, reader_out, reader_out_tx,
                   reader_process, reader_process_2, conv, r_cancelled, r_avail,
                   thrv, dpc, eofv, obsv>>

\* A reader that goes round its loop again after the EOF marker.
AfterEof_Loop == "ctl"

\* Sync: reader_out_tx.send(None); alive = false: the loop ends.
AfterEof == "store"

\* Sync: is_eof(process, conout), first half: PeekNamedPipe.
R_Peek ==
    /\ ~async_ /\ rpc = "peek"
    /\ IF PeekOk
         THEN /\ r_avail' = TotalBytesAvail
              /\ rpc' = "alive"
              /\ UNCHANGED <<reader_out, enq_log>>
         ELSE /\ reader_out' = Append(reader_out, ItemNone)
              /\ enq_log' = Append(enq_log, ItemNone)
              /\ rpc' = AfterEof
              /\ UNCHANGED r_avail
    /\ UNCHANGED <<readv, wrv, geov, spawn_ret, cfgv, osv, closv, engv, flagv, reader_out_tx, reader_process,
                   reader_alive, reader_process_2, conv, r_cancelled, thrv, dpc,
                   eofv, obsv>>

\* eof = !alive && total_bytes == 0
ReaderEof == child # "alive" /\ r_avail = 0

\* Sync: is_eof(process, conout), second half: is_alive(process).
R_Alive ==
    /\ ~async_ /\ rpc = "alive"
    /\ IF ReaderEof
         THEN /\ reader_out' = Append(reader_out, ItemNone)
              /\ enq_log' = Append(enq_log, ItemNone)
              /\ rpc' = AfterEof
         ELSE /\ rpc' = "read"
              /\ UNCHANGED <<reader_out, enq_log>>
    /\ UNCHANGED <<readv, wrv, geov, spawn_ret, cfgv, osv, closv, engv, flagv, reader_out_tx, reader_process,
                   reader_alive, reader_process_2, conv, r_cancelled, r_avail, thrv,
                   dpc, eofv, obsv>>

\* ReadFile is issued on conout.
R_Submit ==
    /\ rpc = "read"
    /\ rpc' = "pending"
    /\ r_cancelled' = FALSE
    /\ UNCHANGED <<extv, cfgv, osv, closv, engv, flagv, chanv, conv, r_avail, thrv, dpc,
                   eofv, obsv>>

\* A reader that goes on reading after a zero-byte read.
AfterReadOk_Loop(v) == IF ~async_ THEN "ctl" ELSE "read"

\* Where the reader goes after a successful read of chunk v.
AfterReadOk(v) ==
    IF ~async_ THEN "ctl" ELSE IF v = 0 THEN "store" ELSE "read"

\* The read completes with the next chunk; the result is enqueued.
R_ReadOk ==
    /\ rpc = "pending" /\ ~r_cancelled /\ pipe # <<>>
    /\ pipe' = Tail(pipe)
    /\ reader_out' = Append(reader_out, ItemOk(Head(pipe)))
    /\ enq_log' = Append(enq_log, ItemOk(Head(pipe)))
    /\ rpc' = AfterReadOk(Head(pipe))
    /\ zero_read' = (zero_read \/ Head(pipe) = 0)
    /\ UNCHANGED <<readv, wrv, geov, spawn_ret, cfgv, child, exit_code, pipe_broken, nwritten, closv, engv, flagv,
                   reader_out_tx, reader_process, reader_alive, reader_process_2,
                   conv, r_cancelled, r_avail, thrv, dpc, eofv, last_read, eof_seen,
                   eof_ret, eof_snap, is_alive_ret, alive_false_seen, exit_after,
                   ncancel, drop_parked>>

\* A reader that goes on reading after a failed read.
AfterReadErr_Loop == IF async_ THEN "read" ELSE "ctl"

\* Where the reader goes after a failed read: the Async reader sets
\* alive = false, the Sync reader polls reader_alive and goes on.
AfterReadErr == IF async_ THEN "store" ELSE "ctl"

\* The read fails (cancelled, or broken pipe); the error is enqueued.
R_ReadErr ==
    /\ rpc = "pending"
    /\ r_cancelled \/ (pipe = <<>> /\ pipe_broken)
    /\ reader_out' = Append(reader_out, ItemErr)
    /\ enq_log' = Append(enq_log, ItemErr)
    /\ rpc' = AfterReadErr
    /\ r_cancelled' = FALSE
    /\ UNCHANGED <<readv, wrv, geov, spawn_ret, cfgv, osv, closv, engv, flagv, reader_out_tx, reader_process,
                   reader_alive, reader_process_2, conv, r_avail, thrv, dpc, eofv,
                   obsv>>

\* spinlock_clone.store(false)
R_Store ==
    /\ rpc = "store"
    /\ reader_atomic' = FALSE
    /\ rpc' = "exit"
    /\ UNCHANGED <<extv, cfgv, osv, closv, engv, reader_ready, chanv, conv, r_cancelled,
                   r_avail, thrv, dpc, eofv, obsv>>

\* The thread drops its channel ends and finishes.
R_Exit ==
    /\ rpc = "exit"
    /\ reader_out_tx' = FALSE
    /\ reader_process_2' = IF async_ /\ reader_process_2 = "empty"
                             THEN "closed" ELSE reader_process_2
    /\ rpc' = "done"
    /\ UNCHANGED <<extv, cfgv, osv, closv, engv, flagv, reader_out, reader_process,
                   reader_alive, conv, r_cancelled, r_avail, thrv, dpc, eofv, obsv>>

Reader ==
    \/ R_Handoff \/ R_Ctl \/ R_Peek \/ R_Alive \/ R_Submit \/ R_ReadOk
    \/ R_ReadErr \/ R_Store \/ R_Exit


\* ------------------------------------------------ liveness watcher (Async)
\* reader_process_2_rx.recv()
W_Recv ==
    /\ wpc = "recv" /\ reader_process_2 # "empty"
    /\ wpc' = IF reader_process_2 = "sent" THEN "enter" ELSE "done"
    /\ UNCHANGED <<wobs, extv, cfgv, osv, closv, engv, flagv, chanv, conv, rdrv, cpc, dpc, eofv,
                   obsv>>

\* wait_for_exit(handle) is called: WaitForSingleObject fails at once on a
\* handle that is already closed.
W_Enter ==
    /\ wpc = "enter"
    /\ wpc' = IF Closed("hProcess") THEN "load" ELSE "wait"
    /\ UNCHANGED <<wobs, extv, cfgv, osv, closv, engv, flagv, chanv, conv, rdrv, cpc, dpc, eofv,
                   obsv>>

\* The wait returns because the child has exited.
W_Wait ==
    /\ wpc = "wait" /\ child = "dead"
    /\ wpc' = "load"
    /\ UNCHANGED <<wobs, extv, cfgv, osv, closv, engv, flagv, chanv, conv, rdrv, cpc, dpc, eofv,
                   obsv>>

\* The handle was closed during the wait: the behaviour of the wait is
\* undefined, it may return at any time (or go on until the child exits).
W_WaitClosed ==
    /\ wpc = "wait" /\ child # "dead" /\ Closed("hProcess")
    /\ wpc' = "load"
    /\ UNCHANGED <<wobs, extv, cfgv, osv, closv, engv, flagv, chanv, conv, rdrv, cpc, dpc, eofv,
                   obsv>>

\* while alive_reader_atomic.load(Acquire)
W_Load ==
    /\ wpc = "load"
    /\ wpc' = IF reader_atomic THEN "cancel" ELSE "send"
    /\ UNCHANGED <<wobs, extv, cfgv, osv, closv, engv, flagv, chanv, conv, rdrv, cpc, dpc, eofv,
                   obsv>>

\* CancelIoEx(conout)
W_Cancel ==
    /\ wpc = "cancel"
    /\ r_cancelled' = CancelIoEx
    /\ wpc' = "load"
    /\ UNCHANGED <<wobs, extv, cfgv, osv, closv, engv, flagv, chanv, conv, rpc, r_avail, cpc,
                   dpc, eofv, obsv>>

\* A send on the cleanup channel reaches the cleanup thread's single recv if
\* it is the first message and the receiver still exists.
CleanupSend(b) ==
    IF cleanup_ch = "empty" /\ cpc \in {"recv_info", "recv_clean"}
      THEN (IF b THEN "true" ELSE "false") ELSE cleanup_ch

\* tx.send(true).unwrap_or(()); the thread ends.
W_Send ==
    /\ wpc = "send"
    /\ cleanup_ch' = CleanupSend(TRUE)
    /\ true_sends' = true_sends + 1
    /\ send_child' = child
    /\ send_flag' = reader_atomic
    /\ wpc' = "done"
    /\ UNCHANGED <<extv, cfgv, osv, closv, engv, flagv, chanv, handle_open, handle_lock,
                   process_info, release_info, rdrv, cpc, dpc, eofv, obsv>>

\* The steps of the watcher on a process handle that is open.
Watcher == W_Recv \/ W_Enter \/ W_Wait \/ W_Load \/ W_Cancel \/ W_Send

\* ------------------------------------------------ ConPTY cleanup thread
\* release_info_rx.recv().unwrap()
C_RecvInfo ==
    /\ cpc = "recv_info" /\ release_info # "empty"
    /\ cpc' = IF release_info = "sent" THEN "recv_clean" ELSE "panicked"
    /\ UNCHANGED <<wobs, extv, cfgv, osv, closv, engv, flagv, chanv, conv, rdrv, wpc, dpc, eofv,
                   obsv>>

\* let clean = cleanup_rx.recv().unwrap()
C_RecvClean ==
    /\ cpc = "recv_clean" /\ cleanup_ch # "empty"
    /\ cpc' = IF cleanup_ch = "true" THEN "lock" ELSE "done"
    /\ UNCHANGED <<wobs, extv, cfgv, osv, closv, engv, flagv, chanv, conv, rdrv, wpc, dpc, eofv,
                   obsv>>

\* hpcon_clone.lock().unwrap(): the lock of a mutex that a panicking holder
\* poisoned returns Err, and the unwrap ends the thread.
C_Lock ==
    /\ cpc = "lock" /\ handle_lock \in {"free", "poisoned"}
    /\ handle_lock' = IF handle_lock = "free" THEN "cleanup" ELSE handle_lock
    /\ cpc' = IF handle_lock = "free" THEN "locked" ELSE "panicked"
    /\ UNCHANGED <<wobs, extv, cfgv, osv, closv, engv, flagv, chanv, handle_open, process_info,
                   cleanup_ch, release_info, rdrv, wpc, dpc, eofv, obsv>>

\* if hpcon_guard.1
CleanupGuard == handle_open

\* A cleanup thread whose guard outlives the closure.
GuardScopeEnd_Kept == "cleanup"

\* hpcon_guard goes out of scope at the end of the `if clean` block: the
\* HPCON mutex has no holder after it.
GuardScopeEnd == "free"

\* cleanup(hpcon, console_allocated) under the lock, then the lock is released.
C_Cleanup ==
    /\ cpc = "locked"
    /\ IF CleanupGuard
         THEN /\ hpcon_closes' = hpcon_closes + 1
              /\ free_consoles' = free_consoles + (IF console_allocated THEN 1 ELSE 0)
              /\ handle_open' = FALSE
         ELSE UNCHANGED <<hpcon_closes, free_consoles, handle_open>>
    /\ handle_lock' = GuardScopeEnd
    /\ cpc' = "done"
    /\ UNCHANGED <<wobs, extv, cfgv, osv, agent_freed, close_log, engv, flagv, chanv,
                   process_info, cleanup_ch, release_info, rdrv, wpc, dpc, eofv, obsv>>

Cleanup == C_RecvInfo \/ C_RecvClean \/ C_Lock \/ C_Cleanup


\* ------------------------------------------------------ facade operations
\* A process id query that fails.
GetProcessId_Zero(h) == 0

\* GetProcessId(process): the id of a live process is not 0.
GetProcessId(h) == IF h = "null" THEN 0 ELSE 1

\* spawn succeeds: CreateProcessW / winpty_spawn created the child, then
\* set_process(handle, close_process) and, for ConPTY, release_info_tx.send.
\* ConPTY holds the HPCON mutex for the call and hands over ownership of the
\* process handle only for WinPTY.
Spawn ==
    /\ new_ret = "ok"
    /\ dpc = "live" /\ fpc = "idle" /\ pid = 0
    /\ handle_lock = "free"
    /\ child' = "alive"
    /\ process' = "hProcess"
    /\ close_process' = ~async_
    /\ pid' = GetProcessId("hProcess")
    /\ spawn_ret' = "ok"
    /\ reader_process' = IF rpc = "handoff" /\ reader_process = "empty"
                           THEN "Some" ELSE reader_process
    /\ process_info' = IF async_ THEN "set" ELSE process_info
    /\ release_info' = IF async_ THEN "sent" ELSE release_info
    /\ UNCHANGED <<readv, enq_log, wrv, geov, cfgv, exit_code, pipe, pipe_broken, nwritten, closv, flagv,
                   reader_out, reader_out_tx, reader_alive, reader_process_2,
                   handle_open, handle_lock, cleanup_ch, rdrv, thrv, dpc, eofv, obsv>>

\* spawn fails (CreateProcessW / winpty_spawn, or a step before it, returns
\* an error): set_process is not reached.
\* A spawn that goes on to set_process whatever the OS returned.
SetProcessReached_Always(succ) == TRUE

\* if !succ { return Err(..) } / Err(err) => Err(err): set_process and the
\* send of the release info come after the check of the OS call's result.
SetProcessReached(succ) == succ

SpawnFail ==
    /\ new_ret = "ok"
    /\ dpc = "live" /\ fpc = "idle" /\ pid = 0
    /\ spawn_ret' = "err"
    /\ IF SetProcessReached(FALSE)
         THEN /\ process' = "hProcess"
              /\ close_process' = ~async_
              /\ pid' = GetProcessId("hProcess")
              /\ reader_process' = IF rpc = "handoff" /\ reader_process = "empty"
                                     THEN "Some" ELSE reader_process
              /\ release_info' = IF async_ THEN "sent" ELSE release_info
         ELSE UNCHANGED <<process, close_process, pid, reader_process, release_info>>
    /\ UNCHANGED <<readv, enq_log, wrv, geov, cfgv, osv, closv, flagv, reader_out,
                   reader_out_tx, reader_alive, reader_process_2, handle_open,
                   handle_lock, process_info, cleanup_ch, rdrv, thrv, dpc, eofv, obsv>>

\* The reader thread has finished: its closure dropped reader_process_rx, so
\* a send on reader_process_out returns Err.
ReaderGone == rpc = "done"

\* CreateProcessW / winpty_spawn of a further spawn call.
RespawnOutcomes == {"created", "failed"}

\* spawn called again on a session that already has a child, after the
\* reader thread has finished (a further spawn made while the reader is in
\* its loop starts a second child, which is not followed here).  The call
\* takes the HPCON mutex (ConPTY); when the OS creates the process,
\* set_process assigns process and close_process and unwraps the send on
\* reader_process_out, which panics: the caller unwinds with the HPCON mutex
\* held, which poisons it.
Respawn ==
    /\ new_ret = "ok"
    /\ dpc = "live" /\ fpc = "idle" /\ pid # 0 /\ spawn_ret # "panic"
    /\ handle_lock = "free"
    /\ ReaderGone
    /\ \E o \in RespawnOutcomes :
         IF o = "failed"
           THEN /\ spawn_ret' = "err"
                /\ UNCHANGED <<process, close_process, process_info, handle_lock>>
           ELSE /\ process' = "hProcess2"
                /\ close_process' = ~async_
                /\ process_info' = IF async_ THEN "set" ELSE process_info
                /\ spawn_ret' = "panic"
                /\ handle_lock' = IF async_ THEN "poisoned" ELSE handle_lock
    /\ UNCHANGED <<readv, enq_log, wrv, geov, cfgv, osv, closv, pid, flagv, chanv,
                   handle_open, cleanup_ch, release_info, rdrv, thrv, dpc, eofv, obsv>>

\* get_pid(): self.pid
get_pid == pid

\* get_fd(): self.process.0 as isize
get_fd == process

\* What read returns for a dequeued item.
ReadResult(item) ==
    CASE item.k = "none" -> "eof"
      [] item.k = "err"  -> "err"
      [] item.k = "ok" /\ item.v = 0 -> "empty"
      [] OTHER -> "data"

\* A read that answers an empty queue with an error.
ReadNoItem_Err == "err"

\* What read returns when nothing can be dequeued (recv / try_recv fail).
ReadNoItem == "empty"

\* A channel whose receive leaves the received item in the queue.
Remaining_Keep(q) == q

\* The queue after recv / try_recv has taken its head.
Remaining(q) == Tail(q)

\* read(blocking): recv() waits for an item or for the sender to go away;
\* try_recv() does not wait.
Read(blocking) ==
    /\ dpc = "live"
    /\ IF reader_out # <<>>
         THEN /\ last_read' = ReadResult(Head(reader_out))
              /\ reader_out' = Remaining(reader_out)
              /\ read_item' = Head(reader_out)
              /\ deq_log' = Append(deq_log, Head(reader_out))
         ELSE /\ blocking => ~reader_out_tx
              /\ last_read' = ReadNoItem
              /\ read_item' = NoItem
              /\ UNCHANGED <<reader_out, deq_log>>
    /\ read_mode' = IF blocking THEN "blocking" ELSE "nonblocking"
    /\ eof_seen' = (eof_seen \/ last_read' = "eof")
    /\ UNCHANGED <<enq_log, wrv, geov, spawn_ret, cfgv, osv, closv, engv, flagv, reader_out_tx, reader_process,
                   reader_alive, reader_process_2, conv, rdrv, thrv, dpc, eofv,
                   eof_ret, eof_snap, is_alive_ret, alive_false_seen, exit_after,
                   ncancel, drop_parked, zero_read>>

ReadBlocking == Read(TRUE)

ReadNonBlocking == Read(FALSE)

\* cancel_io(): CancelIoEx(conout)
CancelIo ==
    /\ dpc = "live" /\ ncancel < MaxCancels
    /\ r_cancelled' = CancelIoEx
    /\ ncancel' = ncancel + 1
    /\ UNCHANGED <<extv, cfgv, osv, closv, engv, flagv, chanv, conv, rpc, r_avail, thrv,
                   dpc, eofv, last_read, eof_seen, eof_ret, eof_snap, is_alive_ret,
                   alive_false_seen, exit_after, drop_parked, zero_read>>

\* is_alive(process): WaitForSingleObject(process, 0) == WAIT_TIMEOUT; the
\* wait fails on the null handle.
is_alive ==
    IF process = "null" THEN "err" ELSE IF child = "alive" THEN "true" ELSE "false"

IsAlive ==
    /\ dpc = "live"
    /\ is_alive_ret' = is_alive
    /\ alive_false_seen' = (alive_false_seen \/ is_alive = "false")
    /\ UNCHANGED <<extv, cfgv, osv, closv, engv, flagv, chanv, conv, rdrv, thrv, dpc, eofv,
                   last_read, eof_seen, eof_ret, eof_snap, exit_after, ncancel,
                   drop_parked, zero_read>>

\* GetExitCodeProcess: STATUS_PENDING (STILL_ACTIVE) while the child runs.
ExitCodeProcess == IF child = "alive" THEN STATUS_PENDING ELSE exit_code

\* get_exitstatus(process): None is -1, Some(c) is c.
get_exitstatus(actual_exit) ==
    IF actual_exit = STATUS_PENDING THEN -1 ELSE actual_exit

GetExitStatus ==
    /\ dpc = "live"
    /\ exit_after' = IF ~alive_false_seen THEN exit_after
                      ELSE IF pid = 0 THEN -1 ELSE get_exitstatus(ExitCodeProcess)
    /\ UNCHANGED <<extv, cfgv, osv, closv, engv, flagv, chanv, conv, rdrv, thrv, dpc, eofv,
                   last_read, eof_seen, eof_ret, eof_snap, is_alive_ret,
                   alive_false_seen, ncancel, drop_parked, zero_read>>

\* is_eof, step 1: PeekNamedPipe(conout).
E_Peek ==
    /\ dpc = "live" /\ fpc = "idle"
    /\ e_succ' = PeekOk
    /\ e_pre' = (child = "dead" /\ ~reader_atomic /\ reader_out = <<>>
                 /\ pipe = <<>> /\ PeekOk)
    /\ fpc' = "alive"
    /\ UNCHANGED <<extv, cfgv, osv, closv, engv, flagv, chanv, conv, rdrv, thrv, dpc,
                   e_alive, obsv>>

\* is_eof, step 2: self.is_alive(); an error is returned to the caller.
E_Alive ==
    /\ fpc = "alive"
    /\ IF is_alive = "err"
         THEN /\ eof_ret' = "err"
              /\ fpc' = "idle"
              /\ e_succ' = FALSE /\ e_pre' = FALSE
              /\ UNCHANGED e_alive
         ELSE /\ e_alive' = (is_alive = "true")
              /\ fpc' = IF is_alive = "true" THEN "flag" ELSE "empty"
              /\ UNCHANGED <<eof_ret, e_succ, e_pre>>
    /\ UNCHANGED <<extv, cfgv, osv, closv, engv, flagv, chanv, conv, rdrv, thrv, dpc,
                   last_read, eof_seen, eof_snap, is_alive_ret, alive_false_seen,
                   exit_after, ncancel, drop_parked, zero_read>>

\* is_eof, step 3: alive || !self.reader_out_rx.is_empty()
E_Empty ==
    /\ fpc = "empty"
    /\ e_alive' = (reader_out # <<>>)
    /\ fpc' = "flag"
    /\ UNCHANGED <<extv, cfgv, osv, closv, engv, flagv, chanv, conv, rdrv, thrv, dpc,
                   e_succ, e_pre, obsv>>

\* succ = succ || is_alive || self.reader_atomic.load(Acquire); Ok(!succ)
IsEofResult(succ, alive, atomic) == ~(succ \/ alive \/ atomic)

\* is_eof, step 4: the flag is loaded and the call returns.
E_Flag ==
    /\ fpc = "flag"
    /\ eof_ret' = IF IsEofResult(e_succ, e_alive, reader_atomic) THEN "true" ELSE "false"
    /\ eof_snap' = [alive |-> child = "alive", pending |-> reader_out # <<>>,
                    active |-> reader_atomic, drained |-> e_pre]
    /\ fpc' = "idle"
    /\ e_succ' = FALSE /\ e_alive' = FALSE /\ e_pre' = FALSE
    /\ UNCHANGED <<extv, cfgv, osv, closv, engv, flagv, chanv, conv, rdrv, thrv, dpc,
                   last_read, eof_seen, is_alive_ret, alive_false_seen, exit_after,
                   ncancel, drop_parked, zero_read>>

IsEof == E_Peek \/ E_Alive \/ E_Empty \/ E_Flag


\* ------------------------------------------------------------ destructors
\* The session is dropped.  ConPTY: Drop for ConPTY runs, then the fields
\* are dropped in declaration order (PTYProcess among them).  WinPTY: the
\* fields are dropped in declaration order, ptr (winpty_free) first.
D_Start ==
    /\ dpc = "live" /\ fpc = "idle"
    /\ dpc' = IF async_ THEN "b_signal" ELSE "b_free"
    /\ drop_parked' = (rpc = "pending" /\ ~r_cancelled /\ pipe = <<>> /\ ~pipe_broken)
    /\ UNCHANGED <<extv, cfgv, osv, closv, engv, flagv, chanv, conv, rdrv, thrv, eofv,
                   last_read, eof_seen, eof_ret, eof_snap, is_alive_ret,
                   alive_false_seen, exit_after, ncancel, zero_read>>

\* Drop for WinPTYPtr: winpty_free(ptr).
D_Free ==
    /\ dpc = "b_free"
    /\ agent_freed' = TRUE
    /\ dpc' = "unblock"
    /\ UNCHANGED <<extv, cfgv, osv, close_log, hpcon_closes, free_consoles, engv, flagv,
                   chanv, conv, rdrv, thrv, eofv, obsv>>

\* Drop for ConPTY: self.cleanup_tx.send(false).unwrap_or(())
D_Signal ==
    /\ dpc = "b_signal"
    /\ cleanup_ch' = CleanupSend(FALSE)
    /\ dpc' = "b_handles"
    /\ UNCHANGED <<extv, cfgv, osv, closv, engv, flagv, chanv, handle_open, handle_lock,
                   process_info, release_info, rdrv, thrv, eofv, obsv>>

\* The CloseHandle calls of Drop for ConPTY: hThread, then hProcess, each
\* if it is valid.
BackendCloses ==
    IF process_info = "set"
      THEN <<[h |-> "hThread", by |-> "backend"], [h |-> "hProcess", by |-> "backend"]>>
      ELSE <<>>

\* Drop for ConPTY: close the child's handles, delete the attribute list.
D_Handles ==
    /\ dpc = "b_handles"
    /\ close_log' = close_log \o BackendCloses
    /\ dpc' = "b_lock"
    /\ UNCHANGED <<extv, cfgv, osv, agent_freed, hpcon_closes, free_consoles, engv, flagv,
                   chanv, conv, rdrv, thrv, eofv, obsv>>

\* Drop for ConPTY: self.handle.lock()
D_Lock ==
    /\ dpc = "b_lock" /\ handle_lock = "free"
    /\ handle_lock' = "drop"
    /\ dpc' = "b_hpcon"
    /\ UNCHANGED <<extv, cfgv, osv, closv, engv, flagv, chanv, handle_open, process_info,
                   cleanup_ch, release_info, rdrv, thrv, eofv, obsv>>

\* A destructor that closes the pseudo-console without looking at the flag.
DropGuard_Always == TRUE

\* if guard.1
DropGuard == handle_open

\* Drop for ConPTY: ClosePseudoConsole under the lock if not closed yet,
\* FreeConsole if the console was allocated; the guard is released at the end.
D_Hpcon ==
    /\ dpc = "b_hpcon"
    /\ IF DropGuard
         THEN /\ hpcon_closes' = hpcon_closes + 1
              /\ handle_open' = FALSE
         ELSE UNCHANGED <<hpcon_closes, handle_open>>
    /\ free_consoles' = free_consoles + (IF console_allocated THEN 1 ELSE 0)
    /\ handle_lock' = "free"
    /\ dpc' = "unblock"
    /\ UNCHANGED <<extv, cfgv, osv, agent_freed, close_log, engv, flagv, chanv,
                   process_info, cleanup_ch, release_info, rdrv, thrv, eofv, obsv>>

\* Drop for PTYProcess: while !reader_ready { reader_process_out.send(None) }
D_Unblock ==
    /\ dpc = "unblock"
    /\ IF reader_ready
         THEN /\ dpc' = "stop"
              /\ UNCHANGED reader_process
         ELSE /\ reader_process' = IF rpc = "handoff" /\ reader_process = "empty"
                                     THEN "None" ELSE reader_process
              /\ UNCHANGED dpc
    /\ UNCHANGED <<extv, cfgv, osv, closv, engv, flagv, reader_out, reader_out_tx,
                   reader_alive, reader_process_2, conv, rdrv, thrv, eofv, obsv>>

\* A destructor that does not wait for the reader flag before joining.
StopLoop_NoCancel == FALSE

\* self.reader_atomic.load(Acquire), the condition of the cancel loop
StopLoop == reader_atomic

\* Drop for PTYProcess: while reader_atomic.load(Acquire)
D_Stop ==
    /\ dpc = "stop"
    /\ dpc' = IF StopLoop THEN "stop_cancel" ELSE "join_reader"
    /\ UNCHANGED <<extv, cfgv, osv, closv, engv, flagv, chanv, conv, rdrv, thrv, eofv,
                   obsv>>

\* ... CancelIoEx(conout)
D_StopCancel ==
    /\ dpc = "stop_cancel"
    /\ r_cancelled' = CancelIoEx
    /\ dpc' = "stop_send"
    /\ UNCHANGED <<extv, cfgv, osv, closv, engv, flagv, chanv, conv, rpc, r_avail, thrv,
                   eofv, obsv>>

\* ... reader_alive.send(false): only the Sync reader receives on this
\* channel, and only while it is in its loop.
D_StopSend ==
    /\ dpc = "stop_send"
    /\ reader_alive' = (reader_alive
                        \/ (~async_ /\ rpc \in {"ctl", "peek", "alive", "read", "pending"}))
    /\ dpc' = "stop"
    /\ UNCHANGED <<extv, cfgv, osv, closv, engv, flagv, reader_out, reader_out_tx,
                   reader_process, reader_process_2, conv, rdrv, thrv, eofv, obsv>>

\* thread_handle.join() on the reader.
\* A join that does not wait for the thread.
ReaderJoined_NoWait == TRUE

\* thread_handle.join() returns once the reader thread has finished.
ReaderJoined == rpc = "done"

\* if let Some(thread_handle) = self.reading_thread.take() { .. join() }
D_JoinReader ==
    /\ dpc = "join_reader" /\ ReaderJoined
    /\ dpc' = "close"
    /\ UNCHANGED <<extv, cfgv, osv, closv, engv, flagv, chanv, conv, rdrv, thrv, eofv,
                   obsv>>

\* A destructor that closes conout whatever the mode.
CloseConout_Always == TRUE

\* !self.conout.is_invalid() && !self.async_
CloseConout == ~async_

\* A destructor that closes the process handle whoever owns it.
CloseProcess_Always == TRUE

\* self.close_process && !self.process.is_invalid()
CloseProcess == close_process /\ process # "null"

\* The CloseHandle calls of Drop for PTYProcess: conin, conout, process.
EngineCloses ==
    <<[h |-> conin, by |-> "engine"]>>
    \o (IF CloseConout THEN <<[h |-> conout, by |-> "engine"]>> ELSE <<>>)
    \o (IF CloseProcess THEN <<[h |-> process, by |-> "engine"]>> ELSE <<>>)

D_Close ==
    /\ dpc = "close"
    /\ close_log' = close_log \o EngineCloses
    /\ dpc' = "join_watcher"
    /\ UNCHANGED <<extv, cfgv, osv, agent_freed, hpcon_closes, free_consoles, engv, flagv,
                   chanv, conv, rdrv, thrv, eofv, obsv>>

\* alive_thread.join(); afterwards the remaining fields are dropped, the
\* sender of release_info among them.
D_JoinWatcher ==
    /\ dpc = "join_watcher" /\ wpc = "done"
    /\ release_info' = IF release_info = "empty" /\ cpc = "recv_info"
                         THEN "closed" ELSE release_info
    /\ dpc' = "done"
    /\ UNCHANGED <<extv, cfgv, osv, closv, engv, flagv, chanv, handle_open, handle_lock,
                   process_info, cleanup_ch, rdrv, thrv, eofv, obsv>>

Drop ==
    \/ D_Start \/ D_Free \/ D_Signal \/ D_Handles \/ D_Lock \/ D_Hpcon
    \/ D_Unblock \/ D_Stop \/ D_StopCancel \/ D_StopSend \/ D_JoinReader
    \/ D_Close \/ D_JoinWatcher

\* ------------------------------------------------------------------ write
\* const BUFFER_SIZE: usize = 8192
BUFFER_SIZE == 8192

\* Byte lengths (after the UTF-8 conversion) of the buffers the caller writes.
BufLens == {0, 1, BUFFER_SIZE, BUFFER_SIZE + 1}

\* A chunking that yields one (empty) chunk for an empty buffer.
Chunks_NonEmpty(n) ==
    IF n <= BUFFER_SIZE THEN <<n>> ELSE <<BUFFER_SIZE, n - BUFFER_SIZE>>

\* bytes_buf.chunks(BUFFER_SIZE): the lengths of the chunks, in order.
RECURSIVE Chunks(_)
Chunks(n) ==
    IF n = 0 THEN <<>>
    ELSE IF n <= BUFFER_SIZE THEN <<n>>
    ELSE <<BUFFER_SIZE>> \o Chunks(n - BUFFER_SIZE)

\* Most chunks a buffer of BufLens has.
MaxWriteChunks == Len(Chunks(BUFFER_SIZE + 1))

\* Outcomes of one WriteFile: it wrote the chunk and returned TRUE, it
\* returned ERROR_IO_PENDING (overlapped handle only), or it failed.
WriteFileOutcomes == IF async_ THEN {"done", "pending", "fail"} ELSE {"done", "fail"}

\* Outcomes of GetOverlappedResult(conin, &mut write_overlapped.unwrap(), ..):
\* the OVERLAPPED it is given is a copy of the stored one, not the one the
\* pending WriteFile was given, so the count it reports is the pending
\* write's ("full") or that of the untouched copy ("zero"); or it fails.
OverlappedOutcomes == {"full", "zero", "fail"}

\* State of one write call: the content of write_mutex, the pending count,
\* total_written, and what the OS was given; ret = -1 once Err was returned.
WriteStart ==
    [pending |-> write_pending, pcount |-> pend_count, total |-> 0,
     accepted |-> 0, issued |-> 0, ret |-> 0]

\* The Async branch up to the WriteFile: collect the pending write.
Collect(st, gor) ==
    IF ~st.pending THEN st
    ELSE IF gor = "fail"
           THEN [st EXCEPT !.pending = FALSE, !.pcount = 0, !.ret = -1]
           ELSE [st EXCEPT !.pending = FALSE, !.pcount = 0,
                           !.total = @ + IF gor = "full" THEN st.pcount ELSE 0]

\* The Async WriteFile on an overlapped handle: total_written is left alone.
WriteAsync(st, len, wf) ==
    CASE wf = "done"    -> [st EXCEPT !.issued = @ + 1, !.accepted = @ + len]
      [] wf = "pending" -> [st EXCEPT !.issued = @ + 1, !.accepted = @ + len,
                                      !.pending = TRUE, !.pcount = len]
      [] OTHER          -> [st EXCEPT !.issued = @ + 1, !.ret = -1]

\* The Sync WriteFile: total_written += bytes_written.
WriteSync(st, len, wf) ==
    IF wf = "done"
      THEN [st EXCEPT !.issued = @ + 1, !.accepted = @ + len, !.total = @ + len]
      ELSE [st EXCEPT !.issued = @ + 1, !.ret = -1]

\* One iteration of `for chunk in bytes_buf.chunks(BUFFER_SIZE)`.
WriteChunk(st, len, wf, gor) ==
    IF st.ret = -1 THEN st
    ELSE IF async_
      THEN LET c == Collect(st, gor)
           IN  IF c.ret = -1 THEN c ELSE WriteAsync(c, len, wf)
      ELSE WriteSync(st, len, wf)

RECURSIVE WriteLoop(_, _, _, _, _)
WriteLoop(st, chunks, i, wfs, gors) ==
    IF i > Len(chunks) THEN st
    ELSE WriteLoop(WriteChunk(st, chunks[i], wfs[i], gors[i]), chunks, i + 1, wfs, gors)

\* write(buf): the whole call runs under write_mutex.
Write ==
    /\ new_ret = "ok" /\ dpc = "live"
    /\ \E len \in BufLens,
          wfs \in [1..MaxWriteChunks -> WriteFileOutcomes],
          gors \in [1..MaxWriteChunks -> OverlappedOutcomes] :
         LET st == WriteLoop(WriteStart, Chunks(len), 1, wfs, gors)
         IN  /\ write_len' = len
             /\ write_pending' = st.pending
             /\ pend_count' = st.pcount
             /\ write_ret' = IF st.ret = -1 THEN -1 ELSE st.total
             /\ w_accepted' = st.accepted
             /\ w_issued' = st.issued
    /\ UNCHANGED <<cwv, readv, enq_log, geov, spawn_ret, cfgv, osv, closv, engv, flagv,
                   chanv, conv, rdrv, thrv, dpc, eofv, obsv>>

\* ------------------------------------------------ write, chunk by chunk
\* The same call, taken one loop iteration at a time, made by several
\* threads that share the session; the operating system's side of the
\* overlapped writes is part of the state.

\* Number of write calls made in all.
MaxWrites == 2

\* Overlapped writes that may be outstanding in the OS at once.
MaxOutstanding == 2

\* A lock that is granted whoever holds it.
MutexFree_Always == TRUE

\* c_mutex.lock() is granted when no thread holds write_mutex.
MutexFree == wmutex = 0

\* write(buf) up to `let mut write_pending = c_mutex.lock().unwrap()`.
W_Begin(c) ==
    /\ new_ret = "ok" /\ dpc = "live"
    /\ wst[c].pc = "idle" /\ nwrites < MaxWrites
    /\ MutexFree
    /\ wmutex' = c
    /\ nwrites' = nwrites + 1
    /\ \E len \in BufLens :
         wst' = [wst EXCEPT ![c] = [WIdle EXCEPT !.pc = "run", !.call = nwrites + 1,
                                                 !.len = len, !.todo = Chunks(len)]]
    /\ UNCHANGED <<write_pending, pend_count, write_len, write_ret, w_accepted, w_issued,
                   os_out, unawaited, w_overlap, conin_log,
                   readv, enq_log, geov, spawn_ret, cfgv, osv, closv, engv, flagv,
                   chanv, conv, rdrv, thrv, dpc, eofv, obsv>>

\* What GetOverlappedResult can report now.  It is given a fresh copy of the
\* stored OVERLAPPED, whose Internal field is not STATUS_PENDING, so it does
\* not wait: while the overlapped write is outstanding it returns at once
\* with the copy's count; once the write has completed it may also report
\* that completion.
OverlappedNow == IF os_out = 0 THEN OverlappedOutcomes ELSE {"zero"}

\* What WriteFile can return now.
WriteFileNow ==
    IF os_out < MaxOutstanding THEN WriteFileOutcomes ELSE WriteFileOutcomes \ {"pending"}

\* The caller leaves write: the guard of write_mutex is dropped.
WLeave(c, ret, t) ==
    /\ wst' = [wst EXCEPT ![c] = WIdle]
    /\ wmutex' = IF wmutex = c THEN 0 ELSE wmutex
    /\ write_ret' = ret
    /\ write_len' = wst[c].len
    /\ w_accepted' = t.accepted
    /\ w_issued' = t.issued

\* One iteration of the loop, by caller c.
W_Chunk(c) ==
    /\ wst[c].pc = "run" /\ wst[c].todo # <<>>
    /\ \E gor \in OverlappedNow, wf \in WriteFileNow :
         LET w    == wst[c]
             st0  == [pending |-> write_pending, pcount |-> pend_count,
                      total |-> w.total, accepted |-> w.accepted,
                      issued |-> w.issued, ret |-> 0]
             st1  == WriteChunk(st0, Head(w.todo), wf, gor)
             collected == async_ /\ write_pending
             wrote     == st1.issued > st0.issued
             submitted == wrote /\ wf = "pending"
         IN  /\ write_pending' = st1.pending
             /\ pend_count' = st1.pcount
             /\ os_out' = os_out + (IF submitted THEN 1 ELSE 0)
             /\ unawaited' = (IF collected /\ os_out = 0 THEN 0 ELSE unawaited)
                             + (IF submitted THEN 1 ELSE 0)
             /\ w_overlap' = (w_overlap \/ (wrote /\ os_out > 0))
             /\ conin_log' = IF wrote
                               THEN Append(conin_log, [by |-> c, call |-> w.call,
                                                       idx |-> w.idx + 1,
                                                       len |-> Head(w.todo)])
                               ELSE conin_log
             /\ IF st1.ret = -1
                  THEN WLeave(c, -1, st1)
                  ELSE /\ wst' = [wst EXCEPT ![c] = [w EXCEPT !.todo = Tail(w.todo),
                                                              !.idx = w.idx + 1,
                                                              !.total = st1.total,
                                                              !.accepted = st1.accepted,
                                                              !.issued = st1.issued]]
                       /\ UNCHANGED <<wmutex, write_ret, write_len, w_accepted, w_issued>>
    /\ UNCHANGED <<nwrites, readv, enq_log, geov, spawn_ret, cfgv, osv, closv, engv, flagv,
                   chanv, conv, rdrv, thrv, dpc, eofv, obsv>>

\* Ok(total_written) after the last chunk.
W_Return(c) ==
    /\ wst[c].pc = "run" /\ wst[c].todo = <<>>
    /\ WLeave(c, wst[c].total, wst[c])
    /\ UNCHANGED <<write_pending, pend_count, os_out, unawaited, w_overlap, conin_log,
                   nwrites, readv, enq_log, geov, spawn_ret, cfgv, osv, closv, engv,
                   flagv, chanv, conv, rdrv, thrv, dpc, eofv, obsv>>

\* The OS completes an outstanding overlapped write.
WriteCompletes ==
    /\ os_out > 0
    /\ os_out' = os_out - 1
    /\ UNCHANGED <<write_pending, pend_count, write_len, write_ret, w_accepted, w_issued,
                   unawaited, w_overlap, conin_log, wmutex, wst, nwrites,
                   readv, enq_log, geov, spawn_ret, cfgv, osv, closv, engv, flagv,
                   chanv, conv, rdrv, thrv, dpc, eofv, obsv>>

WriteCall == \E c \in Writers : W_Begin(c) \/ W_Chunk(c) \/ W_Return(c)

\* --------------------------------------------------------------- geometry
\* Values of cols and rows (i32) the caller passes.
Dims == {-1, 0, 1, 32768}

\* `n as i16`: the low 16 bits of n, read as a signed number.
ToI16(n) == ((n + 2^15) % 2^16) - 2^15

\* A check for new that lets zero through.
GeometryRejected_Negative(cols, rows) == cols < 0 \/ rows < 0

\* new: if args.cols <= 0 || args.rows <= 0 { return Err(..) }
GeometryRejected(cols, rows) == cols <= 0 \/ rows <= 0

\* The result of new.  ConPTY checks the geometry first; WinPTY first calls
\* winpty_config_new, which may fail, and then checks the geometry.  After
\* the check the operating system calls of the construction succeed or not.
NewResult(cols, rows, cfg_ok, os_ok) ==
    IF ~async_ /\ ~cfg_ok THEN "os"
    ELSE IF GeometryRejected(cols, rows) THEN "geometry"
    ELSE IF os_ok THEN "ok" ELSE "os"

\* The size the backend gives the OS: ConPTY builds a COORD of i16, WinPTY
\* passes the i32 values.
OsSize(cols, rows) ==
    IF async_ THEN [X |-> ToI16(cols), Y |-> ToI16(rows)]
              ELSE [X |-> cols, Y |-> rows]

\* new(args)
New ==
    /\ new_ret = "none"
    /\ \E cols \in Dims, rows \in Dims, cfg_ok \in BOOLEAN, os_ok \in BOOLEAN :
         /\ n_args' = [cols |-> cols, rows |-> rows]
         /\ new_ret' = NewResult(cols, rows, cfg_ok, os_ok)
         /\ con_size' = IF new_ret' = "ok" THEN OsSize(cols, rows) ELSE con_size
    /\ UNCHANGED <<readv, enq_log, wrv, spc, s_args, size_ret, size_before, size_locked,
                   size_api, api_size, spawn_ret, cfgv, osv, closv, engv, flagv,
                   chanv, conv, rdrv, thrv, dpc, eofv, obsv>>

\* A check for set_size that rejects nothing.
SizeRejected_Never(cols, rows) == FALSE

\* set_size: if cols <= 0 || rows <= 0 { return Err(..) }
SizeRejected(cols, rows) == cols <= 0 \/ rows <= 0

\* set_size(cols, rows) is called: the check, and the COORD for ConPTY.
S_Call ==
    /\ new_ret = "ok" /\ dpc = "live" /\ spc = "idle"
    /\ \E cols \in Dims, rows \in Dims :
         /\ s_args' = [cols |-> cols, rows |-> rows]
         /\ IF SizeRejected(cols, rows)
              THEN size_ret' = "geometry" /\ spc' = "idle"
              ELSE size_ret' = "none" /\ spc' = IF async_ THEN "lock" ELSE "resize"
    /\ size_before' = con_size
    /\ size_locked' = FALSE /\ size_api' = FALSE
    /\ UNCHANGED <<readv, enq_log, wrv, new_ret, n_args, con_size, api_size, spawn_ret,
                   cfgv, osv, closv, engv, flagv, chanv, conv, rdrv, thrv, dpc,
                   eofv, obsv>>

\* ConPTY: let guard = self.handle.lock().unwrap()
S_Lock ==
    /\ spc = "lock" /\ handle_lock = "free"
    /\ handle_lock' = "set_size"
    /\ size_locked' = TRUE
    /\ spc' = "resize"
    /\ UNCHANGED <<readv, enq_log, wrv, new_ret, n_args, con_size, s_args, size_ret,
                   size_before, size_api, api_size, spawn_ret, cfgv, osv, closv, engv,
                   flagv, chanv, handle_open, process_info, cleanup_ch, release_info,
                   rdrv, thrv, dpc, eofv, obsv>>

\* ResizePseudoConsole(guard.0, size) / winpty_set_size(ptr, cols, rows), and
\* the return (which releases the guard).
S_Resize ==
    /\ spc = "resize"
    /\ size_api' = TRUE
    /\ api_size' = OsSize(s_args.cols, s_args.rows)
    /\ \E ok \in BOOLEAN :
         /\ con_size' = IF ok THEN api_size' ELSE con_size
         /\ size_ret' = IF ok THEN "ok" ELSE "os"
    /\ handle_lock' = IF async_ THEN "free" ELSE handle_lock
    /\ spc' = "idle"
    /\ UNCHANGED <<readv, enq_log, wrv, new_ret, n_args, s_args, size_before, size_locked,
                   spawn_ret, cfgv, osv, closv, engv, flagv, chanv, handle_open,
                   process_info, cleanup_ch, release_info, rdrv, thrv, dpc, eofv, obsv>>

SetSize == S_Call \/ S_Lock \/ S_Resize

\* ----------------------------------------------------------- specifications
Env == ChildWrite \/ ChildExit \/ PipeBreak

\* A session in use: the child runs and writes, the caller reads.
Next ==
    \/ Env \/ Reader \/ Watcher \/ Cleanup
    \/ Spawn \/ ReadBlocking \/ ReadNonBlocking \/ CancelIo

Spec == Init /\ [][Next]_vars

\* A session in use whose caller also polls is_eof.
EofNext ==
    \/ Env \/ Reader \/ Watcher \/ Cleanup
    \/ Spawn \/ ReadBlocking \/ ReadNonBlocking \/ CancelIo \/ IsEof

EofSpec == Init /\ [][EofNext]_vars

\* A session whose caller polls is_alive and get_exitstatus.
AliveNext ==
    \/ Env \/ Reader \/ Watcher \/ Cleanup
    \/ Spawn \/ SpawnFail \/ IsAlive \/ GetExitStatus

AliveSpec == Init /\ [][AliveNext]_vars

\* A session that is used and then dropped.
DropNext ==
    \/ Env \/ Reader \/ Watcher \/ W_WaitClosed \/ Cleanup
    \/ Spawn \/ CancelIo \/ Drop

DropSpec == Init /\ [][DropNext]_vars

\* A session that is spawned (or not) and then dropped, the caller making no
\* other call in between.
TeardownNext ==
    \/ Env \/ Reader \/ Watcher \/ W_WaitClosed \/ Cleanup
    \/ Spawn \/ Drop

\* ClosePseudoConsole terminates the clients attached to the pseudo-console.
ChildKilled == ChildExit /\ hpcon_closes > 0

\* The destructor's steps once the drop has begun.
DropStep == Drop /\ dpc # "live"

\* Every thread that can run is scheduled, and the child dies once its
\* pseudo-console is closed.  Nothing is assumed about the return of a wait
\* on a closed handle, about the WinPTY agent, or about the caller.
FairDropSpec ==
    /\ Init /\ [][TeardownNext]_vars
    /\ WF_vars(Reader) /\ WF_vars(Watcher) /\ WF_vars(Cleanup)
    /\ WF_vars(DropStep) /\ WF_vars(ChildKilled)

\* A session whose caller writes to the child's input.
WriteNext == Env \/ Spawn \/ SpawnFail \/ Write

WriteSpec == Init /\ [][WriteNext]_vars

\* A session from its construction on, whose caller resizes the console.
GeomNext == New \/ Spawn \/ SpawnFail \/ ChildExit \/ SetSize

GeomSpec == GeomInit /\ [][GeomNext]_vars

\* A session whose callers write concurrently while the OS completes the
\* overlapped writes.
ConcWriteNext == WriteCall \/ WriteCompletes

ConcWriteSpec == Init /\ [][ConcWriteNext]_vars

\* The reader worker of a session whose child prints nothing.
ReaderQuiet ==
    \/ R_Handoff \/ R_Ctl \/ R_Peek \/ R_Alive \/ R_Submit \/ R_ReadErr
    \/ R_Store \/ R_Exit

\* A session whose child prints nothing; the caller writes to it and then
\* drops the session.
WriteDropNext ==
    \/ Spawn \/ ChildExit \/ ReaderQuiet \/ Watcher \/ W_WaitClosed \/ Cleanup
    \/ Write \/ Drop

WriteDropSpec == Init /\ [][WriteDropNext]_vars

\* A session whose callers write concurrently while the child exits and the
\* cleanup thread closes the pseudo-console.
LockNext ==
    \/ Spawn \/ ChildExit \/ ReaderQuiet \/ Watcher \/ Cleanup
    \/ WriteCall \/ WriteCompletes

LockSpec == Init /\ [][LockNext]_vars

\* A session whose caller cancels the pending read and calls spawn again.
PanicNext ==
    \/ Env \/ Reader \/ Watcher \/ Cleanup
    \/ Spawn \/ CancelIo \/ Respawn

PanicSpec == Init /\ [][PanicNext]_vars

\* A session whose child exits, so that the cleanup thread closes the
\* pseudo-console, while the caller resizes it and calls spawn again.
AfterCleanupNext ==
    \/ Spawn \/ ChildExit \/ ReaderQuiet \/ Watcher \/ Cleanup
    \/ SetSize \/ Respawn

AfterCleanupSpec == Init /\ [][AfterCleanupNext]_vars

\* ------------------------------------------------------------- properties
\* C1: once a read has returned the EOF error, every later read returns the
\* EOF error too: the latest result of read is EOF whenever EOF was seen.
C1_EofSticky == eof_seen => last_read = "eof"

\* C2: once the child has exited, the reader has terminated and the queue has
\* been consumed, with no cancel_io and no zero-byte chunk involved, the
\* consumer has been told EOF (from that state on no read can return it).
C2_EofAfterExitAndDrain ==
    (child = "dead" /\ rpc = "done" /\ reader_out = <<>> /\ ncancel = 0 /\ ~zero_read)
        => eof_seen

\* C3: when is_eof returns true, at that moment the child is not alive, the
\* output queue holds no undelivered item and the reader flag is clear.
C3_EofOnlyWhenQuiet ==
    eof_ret = "true"
        => (~eof_snap.alive /\ ~eof_snap.pending /\ ~eof_snap.active)

\* C4: an is_eof call made when the child is dead, the reader has finished,
\* the queue is empty and the pipe reports zero bytes on a successful peek
\* returns true.
C4_EofOnZeroBytePeek ==
    (eof_ret \in {"true", "false"} /\ eof_snap.drained) => eof_ret = "true"

\* C5: when the reader has stopped after the child's exit (no cancel_io, no
\* zero-byte chunk involved), no output bytes are left unread in the pipe.
C5_NoOutputDropped ==
    (child = "dead" /\ ~reader_atomic /\ ncancel = 0 /\ ~zero_read)
        => TotalBytesAvail = 0

\* Drop for ConPTY has returned (the fields are being dropped, or were).
BackendDropped ==
    async_ /\ dpc \in {"unblock", "stop", "stop_cancel", "stop_send",
                       "join_reader", "close", "join_watcher", "done"}

\* C6: ClosePseudoConsole has been called at most once in every state, and
\* exactly once in every state after Drop for ConPTY has returned.
C6_HpconClosedOnce ==
    /\ hpcon_closes <= 1
    /\ BackendDropped => hpcon_closes = 1

\* The cleanup thread went through its critical section and the drop ended.
C6_Witness ==
    /\ async_ /\ dpc = "done" /\ cleanup_ch = "true" /\ cpc = "done"
    /\ hpcon_closes = 1

\* Who called CloseHandle on the child's process handle.
ProcessClosers ==
    {close_log[i].by : i \in {j \in 1..Len(close_log) : close_log[j].h = "hProcess"}}

\* C7: no handle is passed to CloseHandle twice; when the drop has finished
\* the child's process handle was closed exactly once, by the engine if
\* close_process and by the backend if not, and the pipe shared as conin
\* and conout by ConPTY exactly once.
C7_NoDoubleClose ==
    /\ \A h \in {"conin", "conout", "server_pipe", "hProcess", "hThread"} :
          Closes(h) <= 1
    /\ (dpc = "done" /\ pid # 0) =>
          /\ Closes("hProcess") = 1
          /\ ProcessClosers = {IF close_process THEN "engine" ELSE "backend"}
    /\ (dpc = "done" /\ async_) => Closes("server_pipe") = 1

\* A ConPTY session with a child was dropped to the end.
C7_Witness ==
    /\ async_ /\ dpc = "done" /\ pid # 0 /\ ~close_process
    /\ Closes("hProcess") = 1 /\ Closes("server_pipe") = 1

\* C8: the destructor of a session whose spawn never delivered a process
\* handle, once in its reader_ready loop, eventually returns.
C8_UnspawnedDropCompletes == (pid = 0 /\ dpc = "unblock") ~> (dpc = "done")

C10_MonotoneExit ==
    alive_false_seen => (is_alive_ret = "false" /\ exit_after \in {-2, exit_code})

\* C11: the latest blocking read dequeued an item (it did not return without
\* one) and returned Some(Ok(b)) as b, Some(Err(e)) as the error and None as
\* the EOF error.
C11_BlockingReadMapsOneItem ==
    read_mode = "blocking" =>
        /\ read_item # NoItem
        /\ (read_item.k = "ok" =>
                last_read = IF read_item.v = 0 THEN "empty" ELSE "data")
        /\ (read_item.k = "err" => last_read = "err")
        /\ (read_item.k = "none" => last_read = "eof")

\* C12: a non-blocking read can always be made at once on a live session,
\* whatever the reader is doing; the latest one returned empty bytes if the
\* queue was empty and the EOF error if the head of the queue was None.
C12_NonBlockingRead ==
    /\ dpc = "live" => ENABLED ReadNonBlocking
    /\ read_mode = "nonblocking" =>
          /\ (read_item = NoItem => last_read = "empty")
          /\ (read_item.k = "none" => last_read = "eof")

\* A non-blocking read on an empty queue while the reader is parked in a
\* read on conout, after data was delivered.
C12_Witness ==
    /\ read_mode = "nonblocking" /\ read_item = NoItem /\ last_read = "empty"
    /\ rpc = "pending" /\ reader_out = <<>>
    /\ \E i \in 1..Len(deq_log) : deq_log[i].k = "ok"

\* The data chunks of a log, in order (zero-byte chunks carry no number).
DataOf(log) == SelectSeq(log, LAMBDA it : it.k = "ok" /\ it.v # 0)

\* C13: the items delivered so far followed by the items still queued are
\* exactly the items the reader enqueued, in its order (so each is delivered
\* at most once and an error keeps its place), and the data chunks were
\* enqueued in the order the child wrote them.
C13_FifoDelivery ==
    /\ enq_log = deq_log \o reader_out
    /\ \A i, j \in 1..Len(DataOf(enq_log)) :
          i < j => DataOf(enq_log)[i].v < DataOf(enq_log)[j].v

\* An error was delivered between two data chunks.
C13_Witness ==
    \E i, j, k \in 1..Len(deq_log) :
        /\ i < j /\ j < k
        /\ deq_log[i].k = "ok" /\ deq_log[i].v # 0
        /\ deq_log[j].k = "err"
        /\ deq_log[k].k = "ok" /\ deq_log[k].v # 0

\* C14: a write that returns a count returns the number of bytes the OS
\* accepted from the chunks that call issued, in Sync and in Async mode.
C14_WriteReturnsAccepted == write_ret >= 0 => write_ret = w_accepted

\* C15: a write of an empty buffer returns 0 and makes no WriteFile call, and
\* leaves a pending overlapped write as it was.
C15_EmptyWrite ==
    (write_len = 0 /\ write_ret # -2) => (write_ret = 0 /\ w_issued = 0)

\* An empty write returned 0 while an overlapped write was still pending.
C15_Witness == write_len = 0 /\ write_ret = 0 /\ w_issued = 0 /\ write_pending

\* C16: new returns an error whenever cols <= 0 or rows <= 0, the geometry
\* check rejects exactly those arguments, and arguments with both values > 0
\* pass the check (new then fails only if an operating system call fails).
C16_NewValidatesGeometry ==
    new_ret # "none" =>
        LET bad == n_args.cols <= 0 \/ n_args.rows <= 0
        IN  /\ bad => new_ret \in {"geometry", "os"}
            /\ (bad /\ async_) => new_ret = "geometry"
            /\ ~bad => new_ret \in {"ok", "os"}

\* new was rejected for a zero geometry, by either backend.
C16_Witness == new_ret = "geometry" /\ n_args.cols = 0 /\ n_args.rows > 0

\* C17: a set_size with cols <= 0 or rows <= 0 returns the geometry error
\* without taking the HPCON mutex and without calling the resize API, and
\* leaves the console size as it was; whenever the resize API is called, the
\* cols and rows of the call are positive.
C17_SetSizeValidatesGeometry ==
    LET bad == s_args.cols <= 0 \/ s_args.rows <= 0
    IN  /\ (bad /\ (size_ret # "none" \/ spc # "idle")) =>
              /\ size_ret = "geometry" /\ spc = "idle"
              /\ ~size_locked /\ ~size_api
              /\ con_size = size_before
        /\ (spc = "resize" \/ size_api) => (s_args.cols > 0 /\ s_args.rows > 0)

\* A set_size with zero rows returned its error, on a running session
\* that an earlier set_size had resized.
C17_Witness ==
    /\ size_ret = "geometry" /\ s_args.rows = 0 /\ s_args.cols > 0 /\ spc = "idle"
    /\ child = "alive" /\ con_size # OsSize(n_args.cols, n_args.rows)
    /\ ~size_locked /\ ~size_api

\* C18: get_pid() is 0 as long as no spawn has succeeded (also after a spawn
\* that failed), and once a spawn has succeeded get_pid() is not 0 and
\* get_fd() is the handle of the child process, not null.
C18_PidAndFd ==
    /\ spawn_ret # "ok" => get_pid = 0
    /\ spawn_ret = "ok" => (get_pid # 0 /\ get_fd = "hProcess" /\ get_fd # "null")

\* The child of a successful spawn has exited and the reader has finished;
\* the pid and the handle are still reported.
C18_Witness ==
    spawn_ret = "ok" /\ get_pid # 0 /\ get_fd # "null" /\ child = "dead" /\ rpc = "done"

\* The CloseHandle calls the engine destructor has made, in order.
EngineClosed == SelectSeq(close_log, LAMBDA c : c.by = "engine")

\* C19: the engine destructor makes no CloseHandle call before it has joined
\* the reader, and then closes conin, conout (Sync only) and the process
\* handle (only if close_process is set and the handle is not null), in that
\* order and each once.
C19_EngineCloseOrder ==
    IF dpc \in {"join_watcher", "done"}
      THEN EngineClosed =
             <<[h |-> conin, by |-> "engine"]>>
             \o (IF async_ THEN <<>> ELSE <<[h |-> conout, by |-> "engine"]>>)
             \o (IF close_process /\ process # "null"
                   THEN <<[h |-> process, by |-> "engine"]>> ELSE <<>>)
      ELSE EngineClosed = <<>>

\* A Sync session was dropped and its engine closed all three handles.
C19_Witness == dpc = "done" /\ ~async_ /\ Len(EngineClosed) = 3

\* C20: when conout is closed, and in Sync mode when the process handle is
\* closed, the reader thread has finished and the destructor has joined it.
C20_ReaderJoinedBeforeClose ==
    (Closed(conout) \/ (~async_ /\ Closed("hProcess"))) =>
        (rpc = "done" /\ dpc \in {"join_watcher", "done"})

\* An Async session was dropped while its reader was parked in a read, after
\* the backend had closed the child's handles; the pipe is closed and the
\* reader has finished.
C20_Witness ==
    /\ async_ /\ drop_parked /\ Closed(conout) /\ rpc = "done"
    /\ \E i \in 1..Len(close_log) : close_log[i].by = "backend"

\* C21: in Async mode no WriteFile is submitted on conin while an overlapped
\* write is outstanding, so at most one overlapped write is outstanding.
C21_OneOutstandingWrite == async_ => (os_out <= 1 /\ ~w_overlap)

\* C22: an overlapped write that was pending when write returned has been
\* awaited (by a later write or by the destructor) when conin is closed.
C22_PendingWriteAwaited == Closed(conin) => ~write_pending

\* C23: whenever no thread holds write_mutex, its boolean is true exactly
\* when some overlapped write submitted on conin has not been awaited.
C23_PendingFlagExact == wmutex = 0 => (write_pending <=> unawaited > 0)

\* C24: every chunk given to WriteFile has at most BUFFER_SIZE bytes; a
\* thread inside the loop of write holds write_mutex; the chunks of one call
\* are issued in order and next to each other, never mixed with the chunks
\* of another call, and the calls follow each other in the order in which
\* they took the mutex.
C24_ChunksNotInterleaved ==
    /\ \A c \in Writers : wst[c].pc = "run" => wmutex = c
    /\ \A i \in 1..Len(conin_log) :
          /\ conin_log[i].len > 0 /\ conin_log[i].len <= BUFFER_SIZE
          /\ IF i > 1 /\ conin_log[i - 1].call = conin_log[i].call
               THEN conin_log[i].idx = conin_log[i - 1].idx + 1
               ELSE /\ conin_log[i].idx = 1
                    /\ \A j \in 1..(i - 1) : conin_log[j].call < conin_log[i].call

\* Two threads each wrote a buffer of two chunks; the second got the mutex
\* after the first had issued both of its chunks.
C24_Witness ==
    /\ Len(conin_log) = 4
    /\ conin_log[1].by # conin_log[3].by
    /\ conin_log[2].idx = 2 /\ conin_log[4].idx = 2
    /\ conin_log[1].len = BUFFER_SIZE /\ conin_log[2].len = 1

\* C25: whenever the reader thread has terminated, reader_atomic (the
\* "reader is alive" flag) is false.
C25_FlagClearedOnExit == rpc = "done" => ~reader_atomic

\* C26: the watcher sends `true` on the cleanup channel at most once, and
\* when it sends it the child has exited and reader_atomic is false.
C26_WatcherSendsAfterExit ==
    /\ true_sends <= 1
    /\ true_sends > 0 => (send_child = "dead" /\ ~send_flag)

\* The reader has left its loop.
ReaderLeft == rpc \in {"store", "exit", "done"}

\* C27: a cancel_io() made while the reader's read is in flight makes that
\* read fail; a cancelled read ends with an error item enqueued; the Async
\* reader then leaves its loop, clears reader_atomic before it ends, and
\* enqueues nothing more, while the Sync reader goes back to its loop.
C27_CancelEndsAsyncReader ==
    [][ /\ (ncancel' = ncancel + 1 /\ rpc = "pending" /\ pipe = <<>> /\ ~pipe_broken)
              => r_cancelled'
        /\ (rpc = "pending" /\ r_cancelled /\ rpc' # "pending")
              => /\ enq_log' = Append(enq_log, ItemErr)
                 /\ rpc' = IF async_ THEN "store" ELSE "ctl"
        /\ (async_ /\ ReaderLeft) => (ReaderLeft' /\ enq_log' = enq_log)
        /\ (async_ /\ rpc = "store" /\ rpc' # "store") => ~reader_atomic'
      ]_vars

\* The Async reader was stopped by a cancel_io(): the error item is the last
\* thing it enqueued, it has finished with the flag cleared, and output that
\* the still running child wrote afterwards stays in the pipe.
C27_Witness ==
    /\ async_ /\ ncancel = 1 /\ rpc = "done" /\ ~reader_atomic
    /\ enq_log # <<>> /\ enq_log[Len(enq_log)] = ItemErr
    /\ child = "alive" /\ pipe # <<>>

\* C28: an Async read that completes successfully with zero bytes is
\* enqueued as an empty Ok item, not as an error; it is the last read the
\* reader issues and the last item it enqueues; the reader leaves its loop
\* and has cleared reader_atomic when it ends.
C28_ZeroReadEndsAsyncReader ==
    (async_ /\ zero_read) =>
        /\ ReaderLeft
        /\ enq_log # <<>> /\ enq_log[Len(enq_log)] = ItemOk(0)
        /\ rpc \in {"exit", "done"} => ~reader_atomic

\* The Async reader has finished after a zero-byte read that followed a
\* chunk of data; the child is still running.
C28_Witness ==
    /\ async_ /\ zero_read /\ rpc = "done" /\ ~reader_atomic
    /\ Len(enq_log) = 2 /\ enq_log[1].k = "ok" /\ enq_log[1].v # 0
    /\ child = "alive"

\* The cleanup thread stands in one of its two channel receives.
CleanupWaits == cpc \in {"recv_info", "recv_clean"}

CleanupFinished == cpc \in {"done", "panicked"}

\* C30: once a ConPTY session is being dropped, its cleanup thread
\* eventually finishes, whether or not a spawn had succeeded and whichever
\* of the watcher's true and the destructor's false was sent first.
C30_CleanupThreadFinishes == (async_ /\ dpc # "live") ~> CleanupFinished

\* C31: no thread of the session has panicked: the latest spawn returned
\* (it did not unwind from a failing unwrap) and the cleanup thread did not
\* end in a failing unwrap.
C31_NoPanic == spawn_ret # "panic" /\ cpc # "panicked"

\* C32: after a spawn that failed to create the child (and no spawn that
\* succeeded), the engine is as new did leave it: pid is 0, the process
\* handle is unset, nothing was sent to the reader (it still waits for the
\* handle, reader_ready is false, the watcher has no handle either) and
\* nothing was sent to the cleanup thread (it still waits for the release
\* info).
C32_FailedSpawnLeavesEngine ==
    spawn_ret = "err" =>
        /\ pid = 0 /\ get_pid = 0 /\ process = "null"
        /\ reader_process = "empty" /\ rpc = "handoff" /\ ~reader_ready
        /\ reader_process_2 = "empty" /\ (async_ => wpc = "recv")
        /\ release_info = "empty" /\ cleanup_ch = "empty"
        /\ (async_ => cpc = "recv_info")
        /\ process_info = "default"

\* A spawn has failed, and the caller has since asked whether the child is
\* alive.
C32_Witness == spawn_ret = "err" /\ pid = 0 /\ is_alive_ret # "none"

\* The handles to the console pipe that ConPTY::new creates in the host:
\* the server end (NtCreateNamedPipeFile), the client end (NtCreateFile) and
\* its two duplicates input_read_side and output_write_side, which are given
\* to CreatePseudoConsole.
PipeEndpoints == {"server_pipe", "client_pipe", "input_read_side", "output_write_side"}

\* The endpoints the host still holds open: those no CloseHandle was called
\* on.
HostEndpoints == {h \in PipeEndpoints : ~Closed(h)}

\* C33: once ConPTY::new has succeeded, the host has closed input_read_side
\* and output_write_side.
C33_ChildEndpointsClosed ==
    (async_ /\ new_ret = "ok") =>
        HostEndpoints \cap {"input_read_side", "output_write_side"} = {}

\* C34: FreeConsole has been called only in a session whose AllocConsole
\* had succeeded, and at most once, counting the calls of the cleanup thread
\* and of the destructor together.
C34_FreeConsoleOnce ==
    /\ free_consoles > 0 => console_allocated
    /\ free_consoles <= 1

\* A step that hands the HPCON to the OS: ResizePseudoConsole(guard.0, ..)
\* in set_size, UpdateProcThreadAttribute(.., handle.0.0, ..) in a further
\* spawn.
HpconUsed == async_ /\ (S_Resize \/ Respawn)

\* C35: every step that hands the HPCON to an OS call is taken while no
\* ClosePseudoConsole has been called on it.
C35_NoUseAfterClose == [][HpconUsed => (handle_open /\ hpcon_closes = 0)]_vars

\* The watcher has not yet returned from wait_for_exit(handle): it has not
\* received the handle, is about to wait on it, or is blocked in the wait.
WatcherNeedsProcess == wpc \in {"recv", "enter", "wait"}

\* The watcher may still call CancelIoEx(conout): it is about to, or it has
\* yet to test reader_atomic and would find it true.
WatcherMayCancel ==
    \/ wpc = "cancel"
    \/ wpc \in {"recv", "enter", "wait", "load"} /\ reader_atomic

\* C36: the child's process handle is not closed while the watcher has yet
\* to return from its wait on it, and the pipe handle behind conout is not
\* closed while the watcher may still call CancelIoEx on it.
C36_WatcherHandlesOpen ==
    /\ Closed("hProcess") => ~WatcherNeedsProcess
    /\ Closed(conout) => ~WatcherMayCancel

\* What self.startup_info.lpAttributeList can be between two calls of the
\* caller.  new leaves it null (STARTUPINFOEXW::default()).  spawn allocates
\* the list in a local Box<[u8]>, initializes it, copies the pointer into
\* self.startup_info before CreateProcessW, and frees the Box when it
\* returns: after a spawn that got as far as CreateProcessW the field points
\* to freed memory; a spawn that failed earlier left it null.  No state
\* between two calls has a list that is initialized and allocated.
AttributeList ==
    IF spawn_ret = "none" THEN {"null"}
    ELSE IF process_info = "set" THEN {"freed"}
    ELSE {"null", "freed"}

\* Drop for ConPTY has called DeleteProcThreadAttributeList.
ListDeleted == async_ /\ dpc \notin {"live", "b_signal", "b_handles"}

\* C37: the list the ConPTY destructor has given to
\* DeleteProcThreadAttributeList is one that spawn initialized and whose
\* memory is still allocated.
C37_AttributeListValid == ListDeleted => AttributeList = {"initialized"}

\* C38: is_eof is monotone: once a call has returned true, no later call
\* returns anything else (eof_ret, the result of the latest call, stays
\* true).
C38_IsEofMonotone == [][eof_ret = "true" => eof_ret' = "true"]_vars

\* C39: every step that enqueues an item on the output queue is taken while
\* reader_atomic is still true and while the queue's history does not end
\* with the EOF marker None: the marker is enqueued at most once, nothing
\* follows it, and nothing is enqueued once the flag is cleared.
C39_NothingAfterEof ==
    [][enq_log' # enq_log =>
          /\ reader_atomic
          /\ ItemNone \notin {enq_log[i] : i \in 1..Len(enq_log)}
          /\ \E item \in {ItemNone, ItemErr} \cup {ItemOk(v) : v \in 0..MaxChunks} :
                enq_log' = Append(enq_log, item)]_vars

\* The Sync reader enqueued the marker after two items and has finished; the
\* caller has read up to the marker.
C39_Witness ==
    /\ ~async_ /\ rpc = "done" /\ ~reader_atomic
    /\ Len(enq_log) = 3 /\ enq_log[3] = ItemNone
    /\ enq_log[1].k = "ok" /\ last_read = "eof"

\* The console size a caller asks for with (cols, rows).
Requested(a) == [X |-> a.cols, Y |-> a.rows]

\* C40: the size ConPTY passes to CreatePseudoConsole in a successful new,
\* and the size it passes to ResizePseudoConsole in a set_size, is the
\* requested (cols, rows) and is strictly positive.
C40_SizeNotWrapped ==
    [][async_ =>
          /\ (new_ret = "none" /\ new_ret' = "ok") =>
                /\ con_size' = Requested(n_args')
                /\ con_size'.X > 0 /\ con_size'.Y > 0
          /\ (~size_api /\ size_api') =>
                /\ api_size' = Requested(s_args')
                /\ api_size'.X > 0 /\ api_size'.Y > 0]_vars

====
